---- MODULE Spec2Model ----
(***************************************************************************)
(* ImGuiSugar.h: RAII scope guards and the with_X / set_X macro layer over *)
(* Dear ImGui.  The model runs one user function written with the macros: *)
(* a stack of live automatic objects (the guards, plus the user's loop     *)
(* blocks), the library's stack of open scopes, and the control state of   *)
(* the function (running a body, or unwinding after a block exit).         *)
(***************************************************************************)
EXTENDS Naturals, Sequences, FiniteSets

VARIABLES
    stack,      \* live automatic objects, innermost last: guards and loop blocks
    libStack,   \* the library's open scopes; each entry names the call that must close it
    mode,       \* "run": executing statements, "unwind": leaving blocks, "done": returned
    target,     \* while unwinding: the stack depth at which unwinding stops
    why,        \* while unwinding: what left the block
    ev,         \* what the last step did to the library
    err         \* the library saw a closing call that does not match its innermost scope

vars == <<stack, libStack, mode, target, why, ev, err>>

\* Deepest nesting of live guards and loop blocks in the user function.
MaxDepth == 2

----------------------------------------------------------------------------
(* The macro layer *)

\* IMGUI_SUGAR_SCOPED_BOOL / _BOOL_0: guard declared in an if condition.
IMGUI_SUGAR_SCOPED_BOOL(name, BEGIN, END, ALWAYS) ==
    [name |-> name, form |-> "bool", decl |-> "condition",
     begin |-> BEGIN, end |-> END, always |-> ALWAYS]

\* IMGUI_SUGAR_SCOPED_VOID_N / _VOID_0: BooleanGuard<true>, BEGIN through IMGUI_SUGAR_ES.
IMGUI_SUGAR_SCOPED_VOID(name, BEGIN, END) ==
    [name |-> name, form |-> "void", decl |-> "condition",
     begin |-> BEGIN, end |-> END, always |-> TRUE]

\* IMGUI_SUGAR_PARENT_SCOPED_VOID_N: BooleanGuard<true> declared as a plain statement.
IMGUI_SUGAR_PARENT_SCOPED_VOID_N(name, BEGIN, END) ==
    [name |-> name, form |-> "void", decl |-> "statement",
     begin |-> BEGIN, end |-> END, always |-> TRUE]

with_Window == IMGUI_SUGAR_SCOPED_BOOL("with_Window", "Begin", "End", TRUE)
\* with_Child closing only when BeginChild returned true.
with_Child_conditional == IMGUI_SUGAR_SCOPED_BOOL("with_Child", "BeginChild", "EndChild", FALSE)

with_Child == IMGUI_SUGAR_SCOPED_BOOL("with_Child", "BeginChild", "EndChild", TRUE)
with_ChildFrame == IMGUI_SUGAR_SCOPED_BOOL("with_ChildFrame", "BeginChildFrame", "EndChildFrame", TRUE)
with_Combo == IMGUI_SUGAR_SCOPED_BOOL("with_Combo", "BeginCombo", "EndCombo", FALSE)
with_ListBox == IMGUI_SUGAR_SCOPED_BOOL("with_ListBox", "BeginListBox", "EndListBox", FALSE)
with_Menu == IMGUI_SUGAR_SCOPED_BOOL("with_Menu", "BeginMenu", "EndMenu", FALSE)
with_Popup == IMGUI_SUGAR_SCOPED_BOOL("with_Popup", "BeginPopup", "EndPopup", FALSE)
with_PopupModal == IMGUI_SUGAR_SCOPED_BOOL("with_PopupModal", "BeginPopupModal", "EndPopup", FALSE)
with_PopupContextItem == IMGUI_SUGAR_SCOPED_BOOL("with_PopupContextItem", "BeginPopupContextItem", "EndPopup", FALSE)
with_PopupContextWindow == IMGUI_SUGAR_SCOPED_BOOL("with_PopupContextWindow", "BeginPopupContextWindow", "EndPopup", FALSE)
with_PopupContextVoid == IMGUI_SUGAR_SCOPED_BOOL("with_PopupContextVoid", "BeginPopupContextVoid", "EndPopup", FALSE)
with_Table == IMGUI_SUGAR_SCOPED_BOOL("with_Table", "BeginTable", "EndTable", FALSE)
with_TabBar == IMGUI_SUGAR_SCOPED_BOOL("with_TabBar", "BeginTabBar", "EndTabBar", FALSE)
with_TabItem == IMGUI_SUGAR_SCOPED_BOOL("with_TabItem", "BeginTabItem", "EndTabItem", FALSE)
with_DragDropSource == IMGUI_SUGAR_SCOPED_BOOL("with_DragDropSource", "BeginDragDropSource", "EndDragDropSource", FALSE)
with_TreeNode == IMGUI_SUGAR_SCOPED_BOOL("with_TreeNode", "TreeNode", "TreePop", FALSE)
with_TreeNodeV == IMGUI_SUGAR_SCOPED_BOOL("with_TreeNodeV", "TreeNodeV", "TreePop", FALSE)
with_TreeNodeEx == IMGUI_SUGAR_SCOPED_BOOL("with_TreeNodeEx", "TreeNodeEx", "TreePop", FALSE)
with_TreeNodeExV == IMGUI_SUGAR_SCOPED_BOOL("with_TreeNodeExV", "TreeNodeExV", "TreePop", FALSE)

with_TooltipOnHover == IMGUI_SUGAR_SCOPED_BOOL("with_TooltipOnHover", "ImGuiSugar::BeginTooltip", "EndTooltip", FALSE)
with_DragDropTarget == IMGUI_SUGAR_SCOPED_BOOL("with_DragDropTarget", "BeginDragDropTarget", "EndDragDropTarget", FALSE)
with_MainMenuBar == IMGUI_SUGAR_SCOPED_BOOL("with_MainMenuBar", "BeginMainMenuBar", "EndMainMenuBar", FALSE)
with_MenuBar == IMGUI_SUGAR_SCOPED_BOOL("with_MenuBar", "BeginMenuBar", "EndMenuBar", FALSE)

with_Group == IMGUI_SUGAR_SCOPED_VOID("with_Group", "BeginGroup", "EndGroup")
with_Tooltip == IMGUI_SUGAR_SCOPED_VOID("with_Tooltip", "BeginTooltip", "EndTooltip")
with_Font == IMGUI_SUGAR_SCOPED_VOID("with_Font", "PushFont", "PopFont")
with_ButtonRepeat == IMGUI_SUGAR_SCOPED_VOID("with_ButtonRepeat", "PushButtonRepeat", "PopButtonRepeat")
with_ItemWidth == IMGUI_SUGAR_SCOPED_VOID("with_ItemWidth", "PushItemWidth", "PopItemWidth")
with_TextWrapPos == IMGUI_SUGAR_SCOPED_VOID("with_TextWrapPos", "PushTextWrapPos", "PopTextWrapPos")
with_ID == IMGUI_SUGAR_SCOPED_VOID("with_ID", "PushID", "PopID")
with_ClipRect == IMGUI_SUGAR_SCOPED_VOID("with_ClipRect", "PushClipRect", "PopClipRect")
with_TextureID == IMGUI_SUGAR_SCOPED_VOID("with_TextureID", "PushTextureID", "PopTextureID")
with_StyleColor == IMGUI_SUGAR_SCOPED_VOID("with_StyleColor", "PushStyleColor", "ImGuiSugar::PopStyleColor")
with_StyleVar == IMGUI_SUGAR_SCOPED_VOID("with_StyleVar", "PushStyleVar", "ImGuiSugar::PopStyleVar")

set_Font == IMGUI_SUGAR_PARENT_SCOPED_VOID_N("set_Font", "PushFont", "PopFont")
set_ButtonRepeat == IMGUI_SUGAR_PARENT_SCOPED_VOID_N("set_ButtonRepeat", "PushButtonRepeat", "PopButtonRepeat")
set_ItemWidth == IMGUI_SUGAR_PARENT_SCOPED_VOID_N("set_ItemWidth", "PushItemWidth", "PopItemWidth")
set_TextWrapPos == IMGUI_SUGAR_PARENT_SCOPED_VOID_N("set_TextWrapPos", "PushTextWrapPos", "PopTextWrapPos")
set_ID == IMGUI_SUGAR_PARENT_SCOPED_VOID_N("set_ID", "PushID", "PopID")
set_ClipRect == IMGUI_SUGAR_PARENT_SCOPED_VOID_N("set_ClipRect", "PushClipRect", "PopClipRect")
set_TextureID == IMGUI_SUGAR_PARENT_SCOPED_VOID_N("set_TextureID", "PushTextureID", "PopTextureID")
set_StyleColor == IMGUI_SUGAR_PARENT_SCOPED_VOID_N("set_StyleColor", "PushStyleColor", "ImGuiSugar::PopStyleColor")
set_StyleVar == IMGUI_SUGAR_PARENT_SCOPED_VOID_N("set_StyleVar", "PushStyleVar", "ImGuiSugar::PopStyleVar")

\* with_ButtonColored closing with ImGuiSugar::PopStyleColor, which pops one entry.
with_ButtonColored_popOne ==
    [name |-> "with_ButtonColored", form |-> "lambda", decl |-> "condition",
     begin |-> "ButtonColored::push", end |-> "ImGuiSugar::PopStyleColor", always |-> TRUE]

\* with_ButtonColored: BooleanGuard<true> built from two lambdas.
with_ButtonColored ==
    [name |-> "with_ButtonColored", form |-> "lambda", decl |-> "condition",
     begin |-> "ButtonColored::push", end |-> "ButtonColored::pop", always |-> TRUE]

\* The macros that open a block of their own.
WithMacros ==
    { with_Window, with_Child, with_ChildFrame, with_Combo, with_ListBox, with_Menu,
      with_Popup, with_PopupModal, with_PopupContextItem, with_PopupContextWindow,
      with_PopupContextVoid, with_Table, with_TabBar, with_TabItem, with_DragDropSource,
      with_TreeNode, with_TreeNodeV, with_TreeNodeEx, with_TreeNodeExV,
      with_TooltipOnHover, with_DragDropTarget, with_MainMenuBar, with_MenuBar,
      with_Group, with_Tooltip, with_Font, with_ButtonRepeat, with_ItemWidth,
      with_TextWrapPos, with_ID, with_ClipRect, with_TextureID,
      with_StyleColor, with_StyleVar, with_ButtonColored }

\* The guards managed by the parent scope.
SetMacros ==
    { set_Font, set_ButtonRepeat, set_ItemWidth, set_TextWrapPos, set_ID,
      set_ClipRect, set_TextureID, set_StyleColor, set_StyleVar }

----------------------------------------------------------------------------
(* The library behind the macros (imgui.h), as far as pairing is concerned *)

\* The closing call the library requires for a scope opened by the call fn.
LibCloser(fn) ==
    CASE fn = "Begin" -> "End"
      [] fn = "BeginChild" -> "EndChild"
      [] fn = "BeginChildFrame" -> "EndChildFrame"
      [] fn = "BeginCombo" -> "EndCombo"
      [] fn = "BeginListBox" -> "EndListBox"
      [] fn = "BeginMenu" -> "EndMenu"
      [] fn \in {"BeginPopup", "BeginPopupModal", "BeginPopupContextItem",
                 "BeginPopupContextWindow", "BeginPopupContextVoid"} -> "EndPopup"
      [] fn = "BeginTable" -> "EndTable"
      [] fn = "BeginTabBar" -> "EndTabBar"
      [] fn = "BeginTabItem" -> "EndTabItem"
      [] fn = "BeginDragDropSource" -> "EndDragDropSource"
      [] fn = "BeginDragDropTarget" -> "EndDragDropTarget"
      [] fn \in {"TreeNode", "TreeNodeV", "TreeNodeEx", "TreeNodeExV"} -> "TreePop"
      [] fn = "BeginMainMenuBar" -> "EndMainMenuBar"
      [] fn = "BeginMenuBar" -> "EndMenuBar"
      [] fn = "BeginGroup" -> "EndGroup"
      [] fn = "BeginTooltip" -> "EndTooltip"
      [] fn = "PushFont" -> "PopFont"
      [] fn = "PushButtonRepeat" -> "PopButtonRepeat"
      [] fn = "PushItemWidth" -> "PopItemWidth"
      [] fn = "PushTextWrapPos" -> "PopTextWrapPos"
      [] fn = "PushID" -> "PopID"
      [] fn = "PushClipRect" -> "PopClipRect"
      [] fn = "PushTextureID" -> "PopTextureID"
      [] fn = "PushStyleColor" -> "PopStyleColor"
      [] fn = "PushStyleVar" -> "PopStyleVar"

\* Whether the call fn, having returned r, leaves a scope open.  Begin, BeginChild
\* and BeginChildFrame open their window whatever they return; the other calls
\* returning bool open a scope only when they return true; the void calls always.
LibOpens(fn, r) ==
    IF fn \in {"Begin", "BeginChild", "BeginChildFrame",
               "BeginGroup", "BeginTooltip", "PushFont", "PushButtonRepeat",
               "PushItemWidth", "PushTextWrapPos", "PushID", "PushClipRect",
               "PushTextureID", "PushStyleColor", "PushStyleVar"}
    THEN TRUE
    ELSE r

\* The library's opening call fn returning r.
LibBegin(lib, fn, r) ==
    IF LibOpens(fn, r) THEN Append(lib, LibCloser(fn)) ELSE lib

\* The library's closing call fn, popping n entries (n = 1 except PopStyleColor(n),
\* PopStyleVar(n)).  The call is a misuse when the n innermost open scopes are not
\* all scopes that fn closes.
LibEnd(lib, fn, n) ==
    LET len == Len(lib)
        ok  == /\ len >= n
               /\ \A i \in (len - n + 1)..len : lib[i] = fn
    IN  [lib  |-> SubSeq(lib, 1, IF len >= n THEN len - n ELSE 0),
         err  |-> ~ok,
         pops |-> n]

----------------------------------------------------------------------------
(* namespace ImGuiSugar *)

\* ImGuiSugar::PopStyleColor and ImGuiSugar::PopStyleVar pop this many entries.
PopCount == 1

\* inline void PopStyleColor() { ImGui::PopStyleColor(1); }
PopStyleColor(lib) == LibEnd(lib, "PopStyleColor", PopCount)

\* inline void PopStyleVar() { ImGui::PopStyleVar(1); }
PopStyleVar(lib) == LibEnd(lib, "PopStyleVar", PopCount)

\* BeginTooltip without the hover test.
BeginTooltip_unconditional(lib, hovered) ==
    [lib |-> LibBegin(lib, "BeginTooltip", TRUE), ret |-> TRUE]

\* ImGuiSugar::BeginTooltip: opens the tooltip only when the last item is hovered.
BeginTooltip(lib, hovered) ==
    IF hovered
    THEN [lib |-> LibBegin(lib, "BeginTooltip", TRUE), ret |-> TRUE]
    ELSE [lib |-> lib, ret |-> FALSE]

\* IMGUI_SUGAR_ES yielding false after the call.
IMGUI_SUGAR_ES_false(lib, FN) ==
    [lib |-> LibBegin(lib, FN, TRUE), ret |-> FALSE, calls |-> 1]

\* IMGUI_SUGAR_ES / IMGUI_SUGAR_ES_0: calls the void function once and yields true.
IMGUI_SUGAR_ES(lib, FN) ==
    [lib |-> LibBegin(lib, FN, TRUE), ret |-> TRUE, calls |-> 1]

\* with_ButtonColored pushes this many style colors ...
ButtonColoredPushes == 3

\* ... and pops this many at block exit.
ButtonColoredPops == 3

RECURSIVE PushStyleColorN(_, _)
\* The first lambda of with_ButtonColored: n calls of PushStyleColor, then true.
PushStyleColorN(lib, n) ==
    IF n = 0 THEN lib ELSE PushStyleColorN(LibBegin(lib, "PushStyleColor", TRUE), n - 1)

\* The opening expression of a macro m, the library answering r (for
\* with_TooltipOnHover r is IsItemHovered()): the library after it, the value handed
\* to the guard's constructor, and how often the opening function was called.
CallBegin(m, lib, r) ==
    CASE m.form = "lambda" ->
            [lib |-> PushStyleColorN(lib, ButtonColoredPushes), ret |-> TRUE, calls |-> 1]
      [] m.form = "void" -> IMGUI_SUGAR_ES(lib, m.begin)
      [] m.form = "bool" /\ m.begin = "ImGuiSugar::BeginTooltip" ->
            [lib |-> BeginTooltip(lib, r).lib, ret |-> BeginTooltip(lib, r).ret, calls |-> 1]
      [] OTHER -> [lib |-> LibBegin(lib, m.begin, r), ret |-> r, calls |-> 1]

\* m_end(): the callback stored in the guard.
CallEnd(end, lib) ==
    CASE end = "ImGuiSugar::PopStyleColor" -> PopStyleColor(lib)
      [] end = "ImGuiSugar::PopStyleVar" -> PopStyleVar(lib)
      [] end = "ButtonColored::pop" -> LibEnd(lib, "PopStyleColor", ButtonColoredPops)
      [] OTHER -> LibEnd(lib, end, 1)

\* BooleanGuard(state, end): the guard object.  macro, owner, ret, hov, body, lib0
\* and npush are bookkeeping: the macro that made it, who destroys it, what the
\* opening call answered, whether the body was entered, and the library entries the
\* opening call made (lib0 + 1 .. lib0 + npush).
BooleanGuard(m, state, owner, ret, hov, body, lib0, npush) ==
    [macro |-> m.name, owner |-> owner, always |-> m.always,
     m_state |-> state, m_end |-> m.end,
     ret |-> ret, hov |-> hov, body |-> body, lib0 |-> lib0, npush |-> npush]

\* ~BooleanGuard ignoring AlwaysCallEnd.
Destructor_stateOnly(g) == IF g.m_state THEN 1 ELSE 0

\* ~BooleanGuard ignoring m_state.
Destructor_unconditional(g) == 1

\* ~BooleanGuard: how many times m_end is called.
Destructor(g) == IF g.always \/ g.m_state THEN 1 ELSE 0

\* operator bool answering like the destructor's test.
OperatorBool_always(g) == g.always \/ g.m_state

\* operator bool
OperatorBool(g) == g.m_state

\* The guard as a temporary of the opening expression.
GuardLifetime_temporary(decl) == "expr"

\* The parent-scoped guard confined to its own statement.
GuardLifetime_statement(decl) == IF decl = "condition" THEN "if" ELSE "stmt"

\* Where the guard lives: a named variable declared in the condition of an if
\* statement lives until that statement ends ("if"); declared as a statement of its
\* own it lives until the enclosing block ends ("block").
GuardLifetime(decl) == IF decl = "condition" THEN "if" ELSE "block"

----------------------------------------------------------------------------
(* The user function *)

\* A loop block of the user function (for / while), so that break and continue exist.
LoopBlock(lib0) ==
    [macro |-> "for", owner |-> "loop", always |-> FALSE, m_state |-> FALSE,
     m_end |-> "", ret |-> FALSE, hov |-> FALSE, body |-> TRUE, lib0 |-> lib0, npush |-> 0]

NoEv == [op |-> "none", g |-> LoopBlock(0), begins |-> 0, ends |-> 0, pops |-> 0, why |-> "none"]

Event(op, g, begins, ends, pops, w) ==
    [op |-> op, g |-> g, begins |-> begins, ends |-> ends, pops |-> pops, why |-> w]

Top(s) == s[Len(s)]
Pop(s) == SubSeq(s, 1, Len(s) - 1)

\* The innermost enclosing block that is an if statement or a loop; 0: the function body.
BlockIdx(s) ==
    LET I == {i \in 1..Len(s) : s[i].owner # "block"}
    IN  IF I = {} THEN 0 ELSE CHOOSE i \in I : \A j \in I : j <= i

\* The innermost enclosing loop; 0: none.
LoopIdx(s) ==
    LET I == {i \in 1..Len(s) : s[i].owner = "loop"}
    IN  IF I = {} THEN 0 ELSE CHOOSE i \in I : \A j \in I : j <= i

\* Running the destructor of a guard g against the library.
RunDestructor(g, lib) ==
    IF Destructor(g) = 0
    THEN [lib |-> lib, err |-> FALSE, pops |-> 0, ends |-> 0]
    ELSE [lib  |-> CallEnd(g.m_end, lib).lib,
          err  |-> CallEnd(g.m_end, lib).err,
          pops |-> CallEnd(g.m_end, lib).pops,
          ends |-> Destructor(g)]

Init ==
    /\ stack = <<>>
    /\ libStack = <<>>
    /\ mode = "run"
    /\ target = 0
    /\ why = "none"
    /\ ev = NoEv
    /\ err = FALSE

\* The innermost live object is destroyed on the way to depth t: a guard runs
\* ~BooleanGuard, a loop block just ends.
DestroyTop(t, w) ==
    LET g == Top(stack)
        d == IF g.owner \in {"if", "block"}
             THEN RunDestructor(g, libStack)
             ELSE [lib |-> libStack, err |-> FALSE, pops |-> 0, ends |-> 0]
    IN  /\ libStack' = d.lib
        /\ err' = (err \/ d.err)
        /\ ev' = Event(IF g.owner \in {"if", "block"} THEN "dtor" ELSE "exit",
                       g, 0, d.ends, d.pops, w)
        /\ stack' = Pop(stack)
        /\ mode' = "unwind"
        /\ target' = t
        /\ why' = w

\* Control leaves the blocks above depth t, innermost first.
Leave(t, w) ==
    IF Len(stack) > t
    THEN DestroyTop(t, w)
    ELSE /\ mode' = IF w = "return" THEN "done" ELSE "run"
         /\ target' = 0
         /\ why' = "none"
         /\ ev' = NoEv
         /\ UNCHANGED <<stack, libStack, err>>

\* The statement with_X(...) for the macro m, the library answering r: the opening
\* call, the guard, the test of the guard.
WithStmt(m, r) ==
    /\ LET o    == CallBegin(m, libStack, r)
           life == GuardLifetime(m.decl)
           hov  == (m.begin = "ImGuiSugar::BeginTooltip" /\ r)
           g0   == BooleanGuard(m, o.ret, life, o.ret, hov, FALSE, Len(libStack),
                                Len(o.lib) - Len(libStack))
           g    == [g0 EXCEPT !.body = OperatorBool(g0)]
       IN  IF life = "expr"
           THEN \* a temporary: destroyed before the body
                LET d == RunDestructor(g, o.lib)
                IN  /\ libStack' = d.lib
                    /\ err' = (err \/ d.err)
                    /\ ev' = Event("enter", g, o.calls, d.ends, d.pops, "none")
                    /\ stack' = IF g.body THEN Append(stack, [g EXCEPT !.owner = "dead"])
                                ELSE stack
                    /\ UNCHANGED <<mode, target, why>>
           ELSE /\ libStack' = o.lib
                /\ err' = err
                /\ ev' = Event("enter", g, o.calls, 0, 0, "none")
                /\ stack' = Append(stack, g)
                /\ IF g.body
                   THEN UNCHANGED <<mode, target, why>>
                   ELSE /\ mode' = "unwind"
                        /\ target' = Len(stack)
                        /\ why' = "skip"

\* The statement set_X(...) for the macro m.
SetStmt(m) ==
    /\ LET o    == CallBegin(m, libStack, TRUE)
           life == GuardLifetime(m.decl)
           g    == BooleanGuard(m, o.ret, life, o.ret, FALSE, FALSE, Len(libStack),
                                Len(o.lib) - Len(libStack))
       IN  IF life = "block"
           THEN /\ libStack' = o.lib
                /\ err' = err
                /\ ev' = Event("set", g, o.calls, 0, 0, "none")
                /\ stack' = Append(stack, g)
           ELSE \* destroyed at the end of its own statement
                LET d == RunDestructor(g, o.lib)
                IN  /\ libStack' = d.lib
                    /\ err' = (err \/ d.err)
                    /\ ev' = Event("set", g, o.calls, d.ends, d.pops, "none")
                    /\ stack' = stack
    /\ UNCHANGED <<mode, target, why>>

\* A with_X(...) statement is executed.
With ==
    /\ mode = "run"
    /\ Len(stack) < MaxDepth
    /\ \E m \in WithMacros, r \in BOOLEAN : WithStmt(m, r)

\* A set_X(...) statement is executed.
Set ==
    /\ mode = "run"
    /\ Len(stack) < MaxDepth
    /\ \E m \in SetMacros : SetStmt(m)

\* The user function enters a loop body.
Loop ==
    /\ mode = "run"
    /\ Len(stack) < MaxDepth
    /\ stack' = Append(stack, LoopBlock(Len(libStack)))
    /\ ev' = NoEv
    /\ UNCHANGED <<libStack, mode, target, why, err>>

\* Control falls off the end of the innermost block (an if body or a loop body).
EndBlock ==
    /\ mode = "run"
    /\ BlockIdx(stack) > 0
    /\ Leave(BlockIdx(stack) - 1, "fall")

\* break: leaves the innermost loop.
Break ==
    /\ mode = "run"
    /\ LoopIdx(stack) > 0
    /\ Leave(LoopIdx(stack) - 1, "break")

\* continue: leaves the blocks inside the innermost loop, the loop goes on.
Continue ==
    /\ mode = "run"
    /\ LoopIdx(stack) > 0
    /\ Leave(LoopIdx(stack), "continue")

\* return (or the end of the function body): leaves every block.
Return ==
    /\ mode = "run"
    /\ Leave(0, "return")

\* Leaving goes on with the next enclosing object.
Unwind ==
    /\ mode = "unwind"
    /\ Len(stack) > target
    /\ DestroyTop(target, why)

\* The blocks are left: control goes on after them, or the function has returned.
Resume ==
    /\ mode = "unwind"
    /\ Len(stack) = target
    /\ mode' = IF why = "return" THEN "done" ELSE "run"
    /\ target' = 0
    /\ why' = "none"
    /\ ev' = NoEv
    /\ UNCHANGED <<stack, libStack, err>>

Next ==
    \/ With
    \/ Set
    \/ Loop
    \/ EndBlock
    \/ Break
    \/ Continue
    \/ Return
    \/ Unwind
    \/ Resume

Spec == Init /\ [][Next]_vars

----------------------------------------------------------------------------
(* Properties *)

\* The macros whose guard always closes.
AlwaysCloseMacros ==
    {"with_Window", "with_Child", "with_ChildFrame",
     "with_Group", "with_Tooltip", "with_Font", "with_ButtonRepeat", "with_ItemWidth",
     "with_TextWrapPos", "with_ID", "with_ClipRect", "with_TextureID",
     "with_StyleColor", "with_StyleVar", "with_ButtonColored",
     "set_Font", "set_ButtonRepeat", "set_ItemWidth", "set_TextWrapPos", "set_ID",
     "set_ClipRect", "set_TextureID", "set_StyleColor", "set_StyleVar"}

\* The macros whose guard closes only when the opening call returned true.
ConditionalMacros ==
    {"with_Combo", "with_ListBox", "with_Menu", "with_Popup", "with_PopupModal",
     "with_PopupContextItem", "with_PopupContextWindow", "with_PopupContextVoid",
     "with_Table", "with_TabBar", "with_TabItem", "with_DragDropSource",
     "with_DragDropTarget", "with_MainMenuBar", "with_MenuBar", "with_TooltipOnHover",
     "with_TreeNode", "with_TreeNodeV", "with_TreeNodeEx", "with_TreeNodeExV"}

\* The wrappers of void opening functions that open a block of their own.
VoidWithMacros ==
    {"with_Group", "with_Tooltip", "with_Font", "with_ButtonRepeat", "with_ItemWidth",
     "with_TextWrapPos", "with_ID", "with_ClipRect", "with_TextureID",
     "with_StyleColor", "with_StyleVar"}

SetMacroNames == {m.name : m \in SetMacros}

EarlyExits == {"return", "break", "continue"}
BlockExits == EarlyExits \cup {"fall"}

\* Entries of kind k among the library's open scopes.
Depth(lib, k) == Cardinality({i \in 1..Len(lib) : lib[i] = k})

\* Style colors pushed by the guards that are still alive.
LiveStyleColors ==
    LET I == {i \in 1..Len(stack) :
                 /\ stack[i].owner \in {"if", "block"}
                 /\ stack[i].m_end \in {"ImGuiSugar::PopStyleColor", "ButtonColored::pop"}}
        RECURSIVE Sum(_)
        Sum(S) == IF S = {} THEN 0
                  ELSE LET i == CHOOSE x \in S : TRUE IN stack[i].npush + Sum(S \ {i})
    IN  Sum(I)

\* C1: an always-close guard (with_Window, with_Child, with_ChildFrame, every
\* push/pop wrapper) calls its closing call exactly once when its scope is left,
\* whatever the opening call returned and whichever way the block is left; no
\* guard outlives the function.
C1_AlwaysCloseExactlyOnce ==
    /\ (ev.op = "dtor" /\ ev.g.macro \in AlwaysCloseMacros) => ev.ends = 1
    /\ (ev.op \in {"enter", "set"} /\ ev.g.macro \in AlwaysCloseMacros) => ev.ends = 0
    /\ mode = "done" => stack = <<>>

\* An always-close guard destroyed by an early return from a nested body.
C1_Witness ==
    /\ ev.op = "dtor"
    /\ ev.g.macro = "with_Child"
    /\ ev.why = "return"
    /\ ev.ends = 1
    /\ Len(stack) = 1

\* C2: a conditionally closing guard calls its closing call exactly once when the
\* opening call returned true and never when it returned false, whichever way the
\* block is left.
C2_ConditionalClose ==
    /\ (ev.op = "dtor" /\ ev.g.macro \in ConditionalMacros) =>
            ev.ends = (IF ev.g.ret THEN 1 ELSE 0)
    /\ (ev.op = "enter" /\ ev.g.macro \in ConditionalMacros) => ev.ends = 0

\* A conditional guard whose opening call returned false, destroyed without a
\* closing call.
C2_WitnessNotOpened ==
    /\ ev.op = "dtor"
    /\ ev.g.macro = "with_Combo"
    /\ ~ev.g.ret
    /\ ev.ends = 0
    /\ libStack = <<>>

\* A conditional guard whose opening call returned true, destroyed by a break.
C2_Witness ==
    /\ ev.op = "dtor"
    /\ ev.g.macro = "with_TreeNodeEx"
    /\ ev.g.ret
    /\ ev.why = "break"
    /\ ev.ends = 1

\* C3: the body of a scoped block runs iff the opening call returned true (the
\* guard converts to the value the opening call returned); a block whose opening
\* call returned false runs no statement, and an always-close guard then still
\* calls its closing call.
C3_BodyIffOpened ==
    /\ ev.op = "enter" => (ev.g.body = ev.g.ret /\ ev.g.m_state = ev.g.ret)
    /\ \A i \in 1..Len(stack) :
          stack[i].owner \in {"if", "dead"} =>
             /\ stack[i].body = stack[i].ret
             /\ ~stack[i].ret => (i = Len(stack) /\ mode = "unwind" /\ why = "skip")
    /\ (ev.op = "dtor" /\ ev.g.owner = "if" /\ ev.g.macro \in AlwaysCloseMacros /\ ~ev.g.ret) =>
          (~ev.g.body /\ ev.ends = 1)

\* A collapsed window: Begin returned false, the body was skipped, End was called.
C3_Witness ==
    /\ ev.op = "dtor"
    /\ ev.g.macro = "with_Window"
    /\ ~ev.g.ret
    /\ ~ev.g.body
    /\ ev.ends = 1
    /\ ev.why = "skip"

\* C4: closing calls come in the reverse order of their opening calls: the library
\* never sees a closing call that does not match its innermost open scope, the open
\* scopes are exactly those of the live guards, in order, each of them closed by
\* its guard's closing call, a closing call brings the library back to the depth it
\* had before the matching opening call, and once the outermost block is left the
\* depth is what it was before.
C4_LifoBalanced ==
    /\ ~err
    /\ \A i \in 1..Len(stack) :
          stack[i].lib0 = (IF i = 1 THEN 0 ELSE stack[i - 1].lib0 + stack[i - 1].npush)
    /\ Len(libStack) = (IF stack = <<>> THEN 0 ELSE Top(stack).lib0 + Top(stack).npush)
    /\ \A i \in 1..Len(stack) :
          stack[i].npush > 0 =>
             LET c == CallEnd(stack[i].m_end,
                              SubSeq(libStack, 1, stack[i].lib0 + stack[i].npush))
             IN  ~c.err /\ Len(c.lib) = stack[i].lib0
    /\ (ev.op = "dtor" /\ ev.ends > 0) => (ev.pops = ev.g.npush /\ Len(libStack) = ev.g.lib0)
    /\ (ev.op = "dtor" /\ ev.ends = 0) => ev.g.npush = 0
    /\ mode = "done" => libStack = <<>>

\* The inner of two nested open scopes has just been closed on a return, the outer
\* one is still open.
C4_Witness ==
    /\ ev.op = "dtor"
    /\ ev.why = "return"
    /\ ev.ends = 1
    /\ ev.g.lib0 = 1
    /\ Len(stack) = 1
    /\ stack[1].macro = "with_PopupModal"
    /\ libStack = <<"EndPopup">>

\* C5: within one use of a scoped macro the opening call is made once, before the
\* body; the closing call is made only while the block is being left, never at the
\* opening or during the body, whose scope stays open throughout; and no guard
\* is left alive once control is past its block.
C5_Lifecycle ==
    /\ ev.op = "enter" => (ev.begins = 1 /\ ev.ends = 0 /\ stack # <<>> /\ Top(stack) = ev.g)
    /\ ev.ends > 0 => (ev.op = "dtor" /\ mode = "unwind" /\ ev.why \in BlockExits \cup {"skip"})
    /\ \A i \in 1..Len(stack) :
          (stack[i].owner \in {"if", "dead"} /\ stack[i].body) =>
             /\ stack[i].owner = "if"
             /\ Len(libStack) >= stack[i].lib0 + stack[i].npush
    /\ mode = "run" => \A i \in 1..Len(stack) : stack[i].body \/ stack[i].owner = "block"
    /\ mode = "done" => stack = <<>>

\* A guard whose body ran to its end and whose closing call was then made.
C5_Witness ==
    /\ ev.op = "dtor"
    /\ ev.g.owner = "if"
    /\ ev.g.macro = "with_TabBar"
    /\ ev.g.body
    /\ ev.why = "fall"
    /\ ev.ends = 1

\* C6: a set_X guard pushes at its statement and pops only when the enclosing
\* block is left, so the pushed value is in effect for the rest of the block;
\* the pops of several set_X guards run in the reverse order of their pushes, each
\* exactly once.
C6_ParentScoped ==
    /\ ev.op = "set" =>
          /\ ev.begins = 1 /\ ev.ends = 0
          /\ stack # <<>> /\ Top(stack) = ev.g
          /\ mode = "run"
    /\ \A i \in 1..Len(stack) :
          stack[i].macro \in SetMacroNames =>
             /\ stack[i].owner = "block"
             /\ stack[i].npush = 1
             /\ Len(libStack) > stack[i].lib0
             /\ ~CallEnd(stack[i].m_end, <<libStack[stack[i].lib0 + 1]>>).err
    /\ (ev.op = "dtor" /\ ev.g.macro \in SetMacroNames) =>
          /\ ev.ends = 1 /\ ev.pops = 1
          /\ ev.why \in BlockExits
          /\ Len(libStack) = ev.g.lib0
          /\ \A i \in 1..Len(stack) : stack[i].lib0 + stack[i].npush <= ev.g.lib0

\* The later of two set_X guards of one block has been popped, the earlier one is
\* still alive and its value still pushed.
C6_Witness ==
    /\ ev.op = "dtor"
    /\ ev.g.macro = "set_StyleVar"
    /\ ev.ends = 1
    /\ Len(stack) = 1
    /\ stack[1].macro = "set_Font"
    /\ libStack = <<"PopFont">>

\* C7: a void wrapper calls its opening function once and yields true: the body
\* always runs and the closing call is made exactly once; with_StyleColor and
\* with_StyleVar pop one entry per push.
C7_VoidWrappers ==
    /\ (ev.op = "enter" /\ ev.g.macro \in VoidWithMacros) =>
          (ev.begins = 1 /\ ev.g.ret /\ ev.g.body /\ ev.g.npush = 1 /\ mode = "run")
    /\ (ev.op = "dtor" /\ ev.g.macro \in VoidWithMacros) =>
          (ev.g.body /\ ev.ends = 1 /\ ev.pops = ev.g.npush /\ ev.pops = 1
           /\ ev.why \in BlockExits /\ Len(libStack) = ev.g.lib0)

\* with_StyleColor left by falling off its body: one entry popped.
C7_Witness ==
    /\ ev.op = "dtor"
    /\ ev.g.macro = "with_StyleColor"
    /\ ev.g.body
    /\ ev.ends = 1
    /\ ev.pops = 1

\* C8: with_TooltipOnHover calls the library's BeginTooltip exactly when the last
\* item is hovered, runs the body exactly then, and calls EndTooltip once if
\* BeginTooltip was called and never otherwise.
C8_TooltipOnHover ==
    /\ (ev.op \in {"enter", "dtor"} /\ ev.g.macro = "with_TooltipOnHover") =>
          /\ ev.g.npush = (IF ev.g.hov THEN 1 ELSE 0)
          /\ ev.g.body = ev.g.hov
          /\ ev.op = "dtor" =>
                (ev.ends = ev.g.npush /\ ev.pops = ev.g.npush /\ Len(libStack) = ev.g.lib0)
    /\ \A i \in 1..Len(stack) :
          (stack[i].macro = "with_TooltipOnHover" /\ stack[i].body) =>
             /\ stack[i].hov
             /\ Len(libStack) > stack[i].lib0
             /\ libStack[stack[i].lib0 + 1] = "EndTooltip"
    /\ ~err

\* The item was not hovered: no tooltip was begun, and none was ended.
C8_WitnessNotHovered ==
    /\ ev.op = "dtor"
    /\ ev.g.macro = "with_TooltipOnHover"
    /\ ~ev.g.hov
    /\ ev.g.npush = 0
    /\ ev.ends = 0

\* The item was hovered: the tooltip was begun, the body ran, EndTooltip was called.
C8_Witness ==
    /\ ev.op = "dtor"
    /\ ev.g.macro = "with_TooltipOnHover"
    /\ ev.g.hov
    /\ ev.g.body
    /\ ev.ends = 1

\* C9: with_ButtonColored pushes three style colors before the body, always runs
\* the body and pops three at block exit on every exit path: the style-color stack
\* holds exactly the colors of the blocks still open, also when nested.
C9_ButtonColoredBalanced ==
    /\ (ev.op = "enter" /\ ev.g.macro = "with_ButtonColored") =>
          /\ ev.g.npush = 3 /\ ev.g.body
          /\ Len(libStack) = ev.g.lib0 + 3
          /\ \A j \in (ev.g.lib0 + 1)..(ev.g.lib0 + 3) : libStack[j] = "PopStyleColor"
    /\ (ev.op = "dtor" /\ ev.g.macro = "with_ButtonColored") =>
          /\ ev.ends = 1 /\ ev.pops = 3
          /\ ev.why \in BlockExits
          /\ Len(libStack) = ev.g.lib0
    /\ Depth(libStack, "PopStyleColor") = LiveStyleColors
    /\ mode = "done" => Depth(libStack, "PopStyleColor") = 0

\* The inner of two nested with_ButtonColored blocks has been left by a return: its
\* three colors are popped, the outer three are still pushed.
C9_Witness ==
    /\ ev.op = "dtor"
    /\ ev.g.macro = "with_ButtonColored"
    /\ ev.why = "return"
    /\ Len(stack) = 1
    /\ stack[1].macro = "with_ButtonColored"
    /\ libStack = <<"PopStyleColor", "PopStyleColor", "PopStyleColor">>

====
